---- MODULE Spec2Model ----
(***************************************************************************)
(* Smart-home command assistant: the backtracking parsers of code.py and   *)
(* codeNew.py, the interpreter and dispatcher of codeNew.py, the device    *)
(* registry and the reminder schedulers.                                   *)
(***************************************************************************)
EXTENDS Integers, Sequences, FiniteSets, TLC

VARIABLES
    words,      \* the vocabulary the user types from in this session
    text,       \* the raw command text, a sequence of whitespace separated words
    pc,         \* "input" while typing, then the operation that consumed the text
    tokens,     \* the token sequence the operation worked on
    accepted,   \* verdict of parse / parse_command
    goal,       \* the symbol parse_symbol was called with
    start,      \* the position i parse_symbol was called with
    ok,         \* success flag returned by parse_symbol(symbol, tokens, start)
    index,      \* position returned by parse_symbol(symbol, tokens, start)
    trace,      \* the trace list filled by parse_symbol
    now,        \* datetime.now(), minutes since 00:00 of day 0
    devices,    \* DeviceController.devices: name -> state
    log,        \* the transitions logged by set_device: <<name, old, new>>
    events,     \* rows written by persist_event
    queue,      \* AssistantScheduler: the entries of sched.enterabs
    sem,        \* what interpret returned to handle
    response,   \* what handle returned, or the exception that left it
    refTime,    \* the reference time given to parse_time_of_day / parse_duration
    targ,       \* their other arguments
    tres,       \* what they returned: [raised, dt]
    lock,       \* DeviceController.lock: the thread holding it, 0 when free
    threads,    \* per thread: where it is in set_device, and its locals
    calls,      \* history: the set_device calls made so far, [name, state], in order
    writes,     \* history: the writes to devices in the order they happened
    scheduler,  \* which scheduler class was constructed
    worker,     \* the scheduler's background thread: where it is, what it holds
    added,      \* number of add calls made so far
    fired,      \* history: the callbacks invoked, with the time of the call
    program,    \* which of the two hybrid files is running
    intent,     \* the classifier's answer in the last handle call, "" if not asked
    handled     \* number of handle calls made

parseVars  == <<words, text, pc, tokens, accepted, goal, start, ok, index, trace>>
handleVars == <<now, devices, log, events, queue, sem, response>>
timeVars   == <<refTime, targ, tres>>
lockVars   == <<lock, threads, calls, writes>>
schedVars  == <<scheduler, worker, added, fired>>
hybridVars == <<program, intent, handled>>
vars == <<parseVars, handleVars, timeVars, lockVars, schedVars, hybridVars>>

(***************************************************************************)
(* The command texts typed at the prompt: an opening phrase followed by up *)
(* to MaxLen words of the session's vocabulary.                            *)
(***************************************************************************)
DeviceWords == {"the", "kitchen", "fan", "fan.", "fans", "lights", "in", "air",
                "conditioner"}
TimeWords   == {"at", "after", "3", "13", "pm", "am", "2", "hours"}
Vocabulary  == [device |-> DeviceWords, time |-> TimeWords]
Openings ==
    [device |-> { <<"Turn", "on">>,
                  <<"please", "switch", "off", "the">>,
                  <<"turn", "on", "the", "living", "room">> },
     time   |-> { <<"remind", "me", "to", "take", "medicine">>,
                  <<"schedule", "a", "water", "the", "plants", "tomorrow">> }]

(***************************************************************************)
(* Bounds                                                                  *)
(***************************************************************************)
MaxLen == 3     \* words typed after the opening phrase

(***************************************************************************)
(* Tokenizers.  A raw word is a string; lower-casing and the removal of    *)
(* punctuation are given by what they do to the words of the vocabulary.   *)
(***************************************************************************)
\* str.lower()
lower(w) == IF w = "Turn" THEN "turn" ELSE IF w = "Switch" THEN "switch" ELSE w

\* the words that end in a full stop, and what is left of them without it
WithoutDot ==
    (  "fan."     :> "fan"     @@ "fans."    :> "fans"    @@ "lights." :> "lights"
    @@ "heater."  :> "heater"  @@ "bedroom." :> "bedroom" @@ "kitchen." :> "kitchen"
    @@ "room."    :> "room"    @@ "garden."  :> "garden" )

\* re.sub(r'[.,;!?]', '', s) on one word
RemovePunctuation(w) == IF w \in DOMAIN WithoutDot THEN WithoutDot[w] ELSE w

\* s.endswith('.') and s[:-1] on one word
EndsWithDot(w) == w \in DOMAIN WithoutDot
DropLastChar(w) == IF w \in DOMAIN WithoutDot THEN WithoutDot[w] ELSE w

\* str.split(): words that became empty disappear
split(ws) == SelectSeq(ws, LAMBDA w : w # "")

\* codeNew.py tokenize
tokenize(s) ==
    split([k \in 1..Len(s) |-> RemovePunctuation(lower(s[k]))])

\* code.py tokenize: only one '.' at the very end of the text is dropped
code_tokenize(s) ==
    LET low == [k \in 1..Len(s) |-> lower(s[k])]
        cut == IF Len(low) > 0 /\ EndsWithDot(low[Len(low)])
               THEN [low EXCEPT ![Len(low)] = DropLastChar(@)]
               ELSE low
    IN split(cut)

(***************************************************************************)
(* Grammar tables                                                          *)
(***************************************************************************)
\* code.py
grammar ==
    (  "COMMAND"      :> << <<"ACTION">> >>
   @@ "ACTION"       :> << <<"VERB", "SWITCH", "TARGET">> >>
   @@ "VERB"         :> << <<"turn">>, <<"switch">> >>
   @@ "SWITCH"       :> << <<"on">>, <<"off">> >>
   @@ "TARGET"       :> << <<"ALL_PHRASE">>, <<"DEVICE_PHRASE">>, <<"DEVICE_IN_ROOM">> >>
   @@ "ALL_PHRASE"   :> << <<"all", "DEVICE_PLURAL">> >>
   @@ "DEVICE_PHRASE":> << <<"LOCATION_OPT", "DEVICE_NP">> >>
   @@ "DEVICE_IN_ROOM":> << <<"DEVICE_NP", "in", "ROOM">> >>
   @@ "LOCATION_OPT" :> << <<"the", "ROOM">>, <<"in", "ROOM">>, <<"the">>, <<>> >>
   @@ "DEVICE_NP"    :> << <<"lights">>, <<"light">>, <<"fan">>, <<"fans">>,
                            <<"heater">>, <<"air", "conditioner">>, <<"conditioner">> >>
   @@ "DEVICE_PLURAL":> << <<"lights">>, <<"fans">> >>
   @@ "ROOM"         :> << <<"living", "room">>, <<"kitchen">>, <<"bedroom">>, <<"bathroom">> >> )

\* codeNew.py
GRAMMAR ==
    (  "COMMAND"     :> << <<"ACTION">>, <<"SCHEDULE">> >>
   @@ "ACTION"      :> << <<"VERB", "SWITCH", "DEVICE">> >>
   @@ "VERB"        :> << <<"turn">>, <<"switch">> >>
   @@ "SWITCH"      :> << <<"on">>, <<"off">> >>
   @@ "DEVICE"      :> << <<"the", "ROOM", "DEVICE_NP">>, <<"DEVICE_NP", "in", "ROOM">>,
                           <<"DEVICE_NP">> >>
   @@ "ROOM"        :> << <<"living", "room">>, <<"kitchen">>, <<"bedroom">>, <<"bathroom">> >>
   @@ "DEVICE_NP"   :> << <<"light">>, <<"lights">>, <<"fan">>, <<"heater">>,
                           <<"air", "conditioner">> >>
   @@ "SCHEDULE"    :> << <<"REMIND_PHRASE", "TASK", "TIME_PHRASE">> >>
   @@ "REMIND_PHRASE":> << <<"remind", "me", "to">>, <<"set", "alarm", "for">>,
                           <<"schedule", "a">> >>
   @@ "TASK"        :> << <<"take", "medicine">>, <<"water", "the", "plants">>,
                           <<"meeting", "with", "team">>, <<"read", "the", "book">> >>
   @@ "TIME_PHRASE" :> << <<"at", "TIME">>, <<"after", "DURATION">>,
                           <<"tomorrow", "at", "TIME">> >>
   @@ "TIME"        :> << <<"6", "pm">>, <<"7", "am">>, <<"3", "pm">>, <<"9", "am">> >>
   @@ "DURATION"    :> << <<"1", "hour">>, <<"2", "hours">>, <<"30", "minutes">> >> )

(***************************************************************************)
(* Trace events.  The source appends formatted strings; an event keeps the *)
(* fields the string is formatted from.                                    *)
(***************************************************************************)
Expand(sym, prod)    == [kind |-> "Expand", sym |-> sym, prod |-> prod, got |-> ""]
Backtrack(sym, prod) == [kind |-> "Backtrack", sym |-> sym, prod |-> prod, got |-> ""]
Matched(sym)         == [kind |-> "Matched", sym |-> sym, prod |-> <<>>, got |-> sym]
Expected(sym, got)   == [kind |-> "Expected", sym |-> sym, prod |-> <<>>, got |-> got]

\* tokens[i] if i < len(tokens) else 'EOF'   (positions are 0-based in the source)
GotAt(toks, i) == IF i < Len(toks) THEN toks[i + 1] ELSE "EOF"

(***************************************************************************)
(* codeNew.py parse_symbol: returns (ok, j) and appends to trace.          *)
(***************************************************************************)
RECURSIVE parse_symbol(_, _, _)
RECURSIVE parse_symbol_prods(_, _, _, _)
RECURSIVE parse_symbol_prod(_, _, _, _)

\* the inner loop `for s2 in prod`, from the n-th member with j as it stands
parse_symbol_prod(prod, toks, j, n) ==
    IF n > Len(prod)
    THEN [ok |-> TRUE, pos |-> j, trace |-> <<>>]
    ELSE LET r == parse_symbol(prod[n], toks, j) IN
         IF ~r.ok
         THEN [ok |-> FALSE, pos |-> r.pos, trace |-> r.trace]
         ELSE LET rest == parse_symbol_prod(prod, toks, r.pos, n + 1) IN
              [ok |-> rest.ok, pos |-> rest.pos, trace |-> r.trace \o rest.trace]

\* parse_symbol_prods where a later production that also succeeds wins
parse_symbol_prods_LastMatch(sym, toks, i, k) ==
    IF k > Len(GRAMMAR[sym])
    THEN [ok |-> FALSE, pos |-> i, trace |-> <<>>]
    ELSE LET prod == GRAMMAR[sym][k]
             r    == parse_symbol_prod(prod, toks, i, 1)
             rest == parse_symbol_prods(sym, toks, i, k + 1)
         IN IF r.ok /\ ~rest.ok
            THEN [ok |-> TRUE, pos |-> r.pos,
                  trace |-> <<Expand(sym, prod)>> \o r.trace]
            ELSE [ok |-> rest.ok, pos |-> rest.pos,
                  trace |-> <<Expand(sym, prod)>> \o r.trace
                            \o <<Backtrack(sym, prod)>> \o rest.trace]

\* parse_symbol_prods without the Backtrack event of an abandoned production
parse_symbol_prods_NoBacktrackEvent(sym, toks, i, k) ==
    IF k > Len(GRAMMAR[sym])
    THEN [ok |-> FALSE, pos |-> i, trace |-> <<>>]
    ELSE LET prod == GRAMMAR[sym][k]
             r    == parse_symbol_prod(prod, toks, i, 1)
         IN IF r.ok
            THEN [ok |-> TRUE, pos |-> r.pos,
                  trace |-> <<Expand(sym, prod)>> \o r.trace]
            ELSE LET rest == parse_symbol_prods(sym, toks, i, k + 1) IN
                 [ok |-> rest.ok, pos |-> rest.pos,
                  trace |-> <<Expand(sym, prod)>> \o r.trace \o rest.trace]

\* parse_symbol_prods whose Backtrack event names the symbol's first production
parse_symbol_prods_BacktrackNamesFirst(sym, toks, i, k) ==
    IF k > Len(GRAMMAR[sym])
    THEN [ok |-> FALSE, pos |-> i, trace |-> <<>>]
    ELSE LET prod == GRAMMAR[sym][k]
             r    == parse_symbol_prod(prod, toks, i, 1)
         IN IF r.ok
            THEN [ok |-> TRUE, pos |-> r.pos,
                  trace |-> <<Expand(sym, prod)>> \o r.trace]
            ELSE LET rest == parse_symbol_prods(sym, toks, i, k + 1) IN
                 [ok |-> rest.ok, pos |-> rest.pos,
                  trace |-> <<Expand(sym, prod)>> \o r.trace
                            \o <<Backtrack(sym, GRAMMAR[sym][1])>> \o rest.trace]

\* the outer loop `for prod in GRAMMAR[sym]`, from the k-th production
parse_symbol_prods(sym, toks, i, k) ==
    IF k > Len(GRAMMAR[sym])
    THEN [ok |-> FALSE, pos |-> i, trace |-> <<>>]
    ELSE LET prod == GRAMMAR[sym][k]
             r    == parse_symbol_prod(prod, toks, i, 1)
         IN IF r.ok
            THEN [ok |-> TRUE, pos |-> r.pos,
                  trace |-> <<Expand(sym, prod)>> \o r.trace]
            ELSE LET rest == parse_symbol_prods(sym, toks, i, k + 1) IN
                 [ok |-> rest.ok, pos |-> rest.pos,
                  trace |-> <<Expand(sym, prod)>> \o r.trace
                            \o <<Backtrack(sym, prod)>> \o rest.trace]

parse_symbol(sym, toks, i) ==
    IF sym \notin DOMAIN GRAMMAR
    THEN IF i < Len(toks) /\ toks[i + 1] = sym
         THEN [ok |-> TRUE, pos |-> i + 1, trace |-> <<Matched(sym)>>]
         ELSE [ok |-> FALSE, pos |-> i, trace |-> <<Expected(sym, GotAt(toks, i))>>]
    ELSE parse_symbol_prods(sym, toks, i, 1)

\* parse_command without the test of the returned position
parse_command_NoLengthTest(toks) ==
    LET r == parse_symbol("COMMAND", toks, 0) IN
    [ok |-> r.ok, trace |-> r.trace]

\* codeNew.py parse_command: (ok and idx == len(tokens), trace)
parse_command(toks) ==
    LET r == parse_symbol("COMMAND", toks, 0) IN
    [ok |-> r.ok /\ r.pos = Len(toks), trace |-> r.trace]

(***************************************************************************)
(* code.py parse_symbol over `grammar`.                                    *)
(***************************************************************************)
RECURSIVE code_parse_symbol(_, _, _)
RECURSIVE code_parse_symbol_prods(_, _, _, _)
RECURSIVE code_parse_symbol_prod(_, _, _, _)

code_parse_symbol_prod(prod, toks, j, n) ==
    IF n > Len(prod)
    THEN [ok |-> TRUE, pos |-> j, trace |-> <<>>]
    ELSE LET r == code_parse_symbol(prod[n], toks, j) IN
         IF ~r.ok
         THEN [ok |-> FALSE, pos |-> r.pos, trace |-> r.trace]
         ELSE LET rest == code_parse_symbol_prod(prod, toks, r.pos, n + 1) IN
              [ok |-> rest.ok, pos |-> rest.pos, trace |-> r.trace \o rest.trace]

code_parse_symbol_prods(symbol, toks, i, k) ==
    IF k > Len(grammar[symbol])
    THEN [ok |-> FALSE, pos |-> i, trace |-> <<>>]
    ELSE LET prod == grammar[symbol][k]
             r    == code_parse_symbol_prod(prod, toks, i, 1)
         IN IF r.ok
            THEN [ok |-> TRUE, pos |-> r.pos,
                  trace |-> <<Expand(symbol, prod)>> \o r.trace]
            ELSE LET rest == code_parse_symbol_prods(symbol, toks, i, k + 1) IN
                 [ok |-> rest.ok, pos |-> rest.pos,
                  trace |-> <<Expand(symbol, prod)>> \o r.trace
                            \o <<Backtrack(symbol, prod)>> \o rest.trace]

code_parse_symbol(symbol, toks, i) ==
    IF symbol \notin DOMAIN grammar
    THEN IF i < Len(toks) /\ toks[i + 1] = symbol
         THEN [ok |-> TRUE, pos |-> i + 1, trace |-> <<Matched(symbol)>>]
         ELSE [ok |-> FALSE, pos |-> i, trace |-> <<Expected(symbol, GotAt(toks, i))>>]
    ELSE code_parse_symbol_prods(symbol, toks, i, 1)

\* code.py parse: ok and index == len(tokens)
parse(toks) ==
    LET r == code_parse_symbol("COMMAND", toks, 0) IN
    r.ok /\ r.pos = Len(toks)

(***************************************************************************)
(* Time.  A datetime is a number of minutes since 00:00 of day 0; the      *)
(* fields below the minute are not kept.                                   *)
(***************************************************************************)
MinutesPerHour == 60
HoursPerDay    == 24
MinutesPerDay  == HoursPerDay * MinutesPerHour

\* timedelta(days=d), timedelta(hours=n), timedelta(minutes=n)
days(d)    == d * MinutesPerDay
hours(n)   == n * MinutesPerHour
minutes(n) == n

\* int(m.group(1)) on a token of decimal digits
MaxNumber == 99
IsNumber(tok) == \E n \in 0..MaxNumber : ToString(n) = tok
int(tok) == CHOOSE n \in 0..MaxNumber : ToString(n) = tok

\* datetime.replace(hour=h, minute=0, second=0, microsecond=0); hour must be in 0..23
replace_hour(ref, h) == (ref \div MinutesPerDay) * MinutesPerDay + h * MinutesPerHour

\* parse_time_of_day: the two adjustments of h (at most one applies)
hour_of(h0, ampm) ==
    IF ampm = "pm" /\ h0 # 12 THEN h0 + 12
    ELSE IF ampm = "am" /\ h0 = 12 THEN 0
    ELSE h0

\* next_occurrence with < for <=
next_occurrence_StrictlyBefore(dt, ref) == IF dt < ref THEN dt + days(1) ELSE dt

\* parse_time_of_day: if dt <= ref: dt += timedelta(days=1)
next_occurrence(dt, ref) == IF dt <= ref THEN dt + days(1) ELSE dt

\* parse_time_of_day from dt = ref.replace(...) on: [raised, dt]; ref.replace raises
\* ValueError for an hour above 23
replace_and_roll(h, ref) ==
    IF h >= HoursPerDay
    THEN [raised |-> "ValueError", dt |-> 0]
    ELSE [raised |-> "", dt |-> next_occurrence(replace_hour(ref, h), ref)]

\* codeNew.py parse_time_of_day on the text "<digits> <ampm>"
parse_time_of_day(digits, ampm, ref) == replace_and_roll(hour_of(int(digits), ampm), ref)

\* codeNew.py parse_duration
parse_duration(num, unit, ref) ==
    IF unit = "hour" \/ unit = "hours" THEN ref + hours(num) ELSE ref + minutes(num)

(***************************************************************************)
(* codeNew.py interpret.  The two patterns are searched in the tokens      *)
(* joined by single blanks, so a pattern word followed by \s+ is a whole   *)
(* token, the first word of a pattern may end a token and the last word    *)
(* may begin one.                                                          *)
(***************************************************************************)
\* proper prefixes and suffixes among the words of the vocabulary
StartsWith(tok, pre) == tok = pre \/ <<tok, pre>> \in {<<"fans", "fan">>, <<"lights", "light">>}
EndsWith(tok, suf)   == tok = suf

Rooms == {"living", "kitchen", "bedroom", "bathroom"}

\* (lights?|fan|heater|air conditioner) at token p: the text of group 4, "" for no match
NounAt(t, p) ==
    IF p > Len(t) THEN ""
    ELSE IF StartsWith(t[p], "lights") THEN "lights"
    ELSE IF StartsWith(t[p], "light") THEN "light"
    ELSE IF StartsWith(t[p], "fan") THEN "fan"
    ELSE IF StartsWith(t[p], "heater") THEN "heater"
    ELSE IF t[p] = "air" /\ p + 1 <= Len(t) /\ StartsWith(t[p + 1], "conditioner")
         THEN "air conditioner"
    ELSE ""

\* ((?:living|kitchen|bedroom|bathroom)\s+)?(lights?|fan|heater|air conditioner) at
\* token q: groups 3 and 4
RoomAndNounAt(t, q) ==
    IF q <= Len(t) /\ t[q] \in Rooms /\ NounAt(t, q + 1) # ""
    THEN [room |-> t[q], noun |-> NounAt(t, q + 1)]
    ELSE [room |-> "", noun |-> NounAt(t, q)]

\* (?:the\s+)? at token p: the token after it
SkipThe(t, p) == IF p <= Len(t) /\ t[p] = "the" THEN p + 1 ELSE p

\* the device pattern with its first word in token k
DevicePatternAt(t, k) ==
    [ok    |-> /\ k + 1 <= Len(t)
               /\ (EndsWith(t[k], "turn") \/ EndsWith(t[k], "switch"))
               /\ t[k + 1] \in {"on", "off"}
               /\ RoomAndNounAt(t, SkipThe(t, k + 2)).noun # "",
     state |-> IF k + 1 <= Len(t) THEN t[k + 1] ELSE "",
     words |-> RoomAndNounAt(t, SkipThe(t, k + 2))]

\* words of the lead-in (remind me to|set alarm for|schedule a) starting in token k, 0 for none
LeadInAt(t, k) ==
    IF k + 2 <= Len(t) /\ EndsWith(t[k], "remind") /\ t[k + 1] = "me" /\ t[k + 2] = "to" THEN 3
    ELSE IF k + 2 <= Len(t) /\ EndsWith(t[k], "set") /\ t[k + 1] = "alarm" /\ t[k + 2] = "for" THEN 3
    ELSE IF k + 1 <= Len(t) /\ EndsWith(t[k], "schedule") /\ t[k + 1] = "a" THEN 2
    ELSE 0

\* (am|pm) and (hours|minutes) at the start of token p: the text matched, "" for none
MarkerAt(t, p) ==
    IF p > Len(t) THEN ""
    ELSE IF StartsWith(t[p], "am") THEN "am"
    ELSE IF StartsWith(t[p], "pm") THEN "pm"
    ELSE ""
UnitAt(t, p) ==
    IF p > Len(t) THEN ""
    ELSE IF StartsWith(t[p], "hours") THEN "hours"
    ELSE IF StartsWith(t[p], "minutes") THEN "minutes"
    ELSE ""

\* \d{1,2}\s*(?:am|pm) in tokens p, p+1
ClockAt(t, p) == p + 1 <= Len(t) /\ IsNumber(t[p]) /\ MarkerAt(t, p + 1) # ""

\* group 3 starting at token p: the kind of time phrase, "" for none
TimePhraseAt(t, p) ==
    IF p > Len(t) THEN ""
    ELSE IF t[p] = "at" /\ ClockAt(t, p + 1) THEN "at"
    ELSE IF t[p] = "after" /\ p + 2 <= Len(t) /\ IsNumber(t[p + 1]) /\ UnitAt(t, p + 2) # ""
         THEN "after"
    ELSE IF t[p] = "tomorrow" /\ p + 1 <= Len(t) /\ t[p + 1] = "at" /\ ClockAt(t, p + 2)
         THEN "tomorrow"
    ELSE ""

\* the least member of a non-empty set of positions
Least(S) == CHOOSE x \in S : \A y \in S : x <= y

\* (.+?)\s+(time phrase) from token a: (.+?) is the shortest run of tokens a..b that a
\* time phrase follows
TaskAndTimeAt(t, a, ends) ==
    IF ends = {}
    THEN [ok |-> FALSE, task |-> <<>>, kind |-> "", at |-> 0]
    ELSE [ok |-> TRUE, task |-> SubSeq(t, a, Least(ends)),
          kind |-> TimePhraseAt(t, Least(ends) + 1), at |-> Least(ends) + 1]

\* the schedule pattern with its lead-in in token k
SchedulePatternAt(t, k) ==
    IF LeadInAt(t, k) = 0
    THEN [ok |-> FALSE, task |-> <<>>, kind |-> "", at |-> 0]
    ELSE TaskAndTimeAt(t, k + LeadInAt(t, k),
                       {b \in (k + LeadInAt(t, k))..Len(t) : TimePhraseAt(t, b + 1) # ""})

\* re.search: the leftmost token at which the pattern matches, 0 for none
Leftmost(S) == IF S = {} THEN 0 ELSE CHOOSE k \in S : \A j \in S : k <= j

NoIntent ==
    [action_type |-> "None", device |-> "", state |-> "", task |-> <<>>,
     scheduled_time |-> 0, raised |-> ""]

\* (room + " " + m.group(4)).strip()
DeviceName(room, noun) == IF room = "" THEN noun ELSE room \o " " \o noun

\* the device branch of interpret, m the match of the device pattern
device_intent(m) ==
    [NoIntent EXCEPT !.action_type = "device",
                     !.device = DeviceName(m.words.room, m.words.noun),
                     !.state = m.state]

\* the time of a matched time phrase: [raised, dt]
\* 'hour' in phrase: the phrase ends in the unit the pattern matched
phrase_time(t, kind, at, clock) ==
    IF kind = "after"
    THEN [raised |-> "",
          dt |-> parse_duration(int(t[at + 1]),
                                IF UnitAt(t, at + 2) = "hours" THEN "hours" ELSE "minutes",
                                clock)]
    ELSE IF kind = "tomorrow"
    THEN parse_time_of_day(t[at + 2], MarkerAt(t, at + 3), clock + days(1))
    ELSE parse_time_of_day(t[at + 1], MarkerAt(t, at + 2), clock)

\* the schedule branch of interpret, tm the resolved time
schedule_intent(task, tm) ==
    IF tm.raised # ""
    THEN [NoIntent EXCEPT !.raised = tm.raised]
    ELSE [NoIntent EXCEPT !.action_type = "schedule", !.task = task,
                          !.scheduled_time = tm.dt]

\* the schedule branch of interpret, m the match of the schedule pattern
schedule_match(t, m, clock) == schedule_intent(m.task, phrase_time(t, m.kind, m.at, clock))

\* interpret after the two searches: kd, ks the tokens where the patterns matched
interpret_matches(t, kd, ks, clock) ==
    IF kd # 0 THEN device_intent(DevicePatternAt(t, kd))
    ELSE IF ks # 0 THEN schedule_match(t, SchedulePatternAt(t, ks), clock)
    ELSE NoIntent

interpret_tokens(t, clock) ==
    interpret_matches(t,
                      Leftmost({k \in 1..Len(t) : DevicePatternAt(t, k).ok}),
                      Leftmost({k \in 1..Len(t) : SchedulePatternAt(t, k).ok}),
                      clock)

interpret(s, clock) == interpret_tokens(tokenize(s), clock)

(***************************************************************************)
(* codeNew.py DeviceController                                             *)
(***************************************************************************)
DeviceController_init ==
    (  "living room lights" :> "off"
    @@ "kitchen fan"        :> "off"
    @@ "bedroom heater"     :> "off"
    @@ "bathroom lights"    :> "off"
    @@ "air conditioner"    :> "off" )

\* set_device with the lock held from the test to the return.  The names that
\* interpret builds have no outer blanks and no double blank, so strip() and
\* replace("  ", " ") leave them as they are.
set_device(devs, lg, name, state) ==
    IF name \in DOMAIN devs
    THEN [done |-> TRUE,
          devices |-> [devs EXCEPT ![name] = state],
          log |-> Append(lg, <<name, devs[name], state>>)]
    ELSE [done |-> FALSE, devices |-> devs, log |-> lg]

(***************************************************************************)
(* codeNew.py SmartHomeAssistant.handle                                    *)
(***************************************************************************)
NoResponse == [ok |-> FALSE, result |-> "", raised |-> ""]

\* the branch for a device intent: p the parser's verdict, d what set_device returned
handle_device(same, p, i, d) ==
    [same EXCEPT
       !.devices = d.devices,
       !.log = d.log,
       !.events = Append(@, [action_type |-> "device", target |-> i.device,
                             scheduled_time |-> 0,
                             status |-> IF d.done THEN "done" ELSE "failed"]),
       !.response = [NoResponse EXCEPT
                       !.ok = p.ok,
                       !.result = IF d.done THEN "Device command executed"
                                  ELSE "Unknown device"]]

\* the branch for a schedule intent: scheduler.add, persist_event
handle_schedule(same, p, i) ==
    [same EXCEPT
       !.queue = @ \cup {[time |-> i.scheduled_time, task |-> i.task]},
       !.events = Append(@, [action_type |-> "schedule", target |-> i.task,
                             scheduled_time |-> i.scheduled_time,
                             status |-> "scheduled"]),
       !.response = [NoResponse EXCEPT !.ok = p.ok, !.result = "Reminder set"]]

\* handle_dispatch that acts on a device intent only when the parser accepted
handle_dispatch_OnlyIfAccepted(same, p, i) ==
    IF i.raised # ""
    THEN [same EXCEPT !.response = [NoResponse EXCEPT !.raised = i.raised]]
    ELSE IF i.action_type = "device" /\ p.ok
    THEN handle_device(same, p, i, set_device(same.devices, same.log, i.device, i.state))
    ELSE IF i.action_type = "schedule"
    THEN handle_schedule(same, p, i)
    ELSE [same EXCEPT
            !.response = [NoResponse EXCEPT !.result = "Command not recognized"]]

\* handle after ok, trace = parse_command(tokens) and sem = interpret(text); an
\* exception raised in interpret leaves handle at that point
handle_dispatch(same, p, i) ==
    IF i.raised # ""
    THEN [same EXCEPT !.response = [NoResponse EXCEPT !.raised = i.raised]]
    ELSE IF i.action_type = "device"
    THEN handle_device(same, p, i, set_device(same.devices, same.log, i.device, i.state))
    ELSE IF i.action_type = "schedule"
    THEN handle_schedule(same, p, i)
    ELSE [same EXCEPT
            !.response = [NoResponse EXCEPT !.result = "Command not recognized"]]

handle_parsed(toks, r, p, i, devs, lg, evs, q) ==
    handle_dispatch([devices |-> devs, log |-> lg, events |-> evs, queue |-> q,
                     tokens |-> toks, ok |-> p.ok, trace |-> p.trace, sem |-> i,
                     parsed |-> r, response |-> NoResponse],
                    p, i)

handle_tokens(toks, s, clock, devs, lg, evs, q) ==
    handle_parsed(toks, parse_symbol("COMMAND", toks, 0), parse_command(toks),
                  interpret(s, clock), devs, lg, evs, q)

handle(s, clock, devs, lg, evs, q) ==
    handle_tokens(tokenize(s), s, clock, devs, lg, evs, q)

(***************************************************************************)
(* The prompt and the operations on the typed text                         *)
(***************************************************************************)
NoTrace == <<>>

InitParse ==
    /\ words \in DOMAIN Vocabulary
    /\ text \in Openings[words]
    /\ pc = "input"
    /\ tokens = <<>>
    /\ accepted = FALSE
    /\ goal = "COMMAND"
    /\ start = 0
    /\ ok = FALSE
    /\ index = 0
    /\ trace = NoTrace

\* the session's clock: 14:30 and 20:00 of day 1
Clock == [device |-> {1440 + 870}, time |-> {1440 + 870, 1440 + 1200}]

NoTimeArg == [digits |-> "", ampm |-> "", num |-> 0, unit |-> ""]
NoTime == [raised |-> "", dt |-> 0]

IdleTime ==
    /\ refTime = 0
    /\ targ = NoTimeArg
    /\ tres = NoTime

\* no thread but the main one calls set_device
IdleLock ==
    /\ lock = 0
    /\ threads = <<>>
    /\ calls = <<>>
    /\ writes = <<>>

NoEntry == [time |-> 0, task |-> "", sequence |-> 0]

\* the scheduler's thread is left out
IdleSched ==
    /\ scheduler = ""
    /\ worker = [pc |-> "", entry |-> NoEntry]
    /\ added = 0
    /\ fired = <<>>

\* neither hybrid file is running
IdleHybrid ==
    /\ program = ""
    /\ intent = ""
    /\ handled = 0

Idle == IdleTime /\ IdleLock /\ IdleSched /\ IdleHybrid

InitHandle ==
    /\ now \in Clock[words]
    /\ devices = DeviceController_init
    /\ log = <<>>
    /\ events = <<>>
    /\ queue = {}
    /\ sem = NoIntent
    /\ response = NoResponse

\* the user types one more word
TypeWord(w) ==
    /\ pc = "input"
    /\ \E o \in Openings[words] :
          /\ Len(o) <= Len(text)
          /\ Len(text) < Len(o) + MaxLen
          /\ SubSeq(text, 1, Len(o)) = o
    /\ text' = Append(text, w)
    /\ UNCHANGED <<words, pc, tokens, accepted, goal, start, ok, index, trace>>
    /\ UNCHANGED <<handleVars, timeVars, lockVars, schedVars, hybridVars>>

\* code.py main loop: tokens = tokenize(user_input); result = parse(tokens, show_trace=True)
Parse ==
    /\ pc = "input"
    /\ \E toks \in {code_tokenize(text)} :
       \E r \in {code_parse_symbol("COMMAND", toks, 0)} :
          /\ tokens' = toks
          /\ accepted' = parse(toks)
          /\ ok' = r.ok
          /\ index' = r.pos
          /\ trace' = r.trace
    /\ pc' = "parse"
    /\ UNCHANGED <<words, text, goal, start>>
    /\ UNCHANGED <<handleVars, timeVars, lockVars, schedVars, hybridVars>>

\* codeNew.py: ok, trace = parse_command(tokenize(text))
ParseCommand ==
    /\ pc = "input"
    /\ \E toks \in {tokenize(text)} :
       \E r \in {parse_symbol("COMMAND", toks, 0)} :
          /\ tokens' = toks
          /\ accepted' = parse_command(toks).ok
          /\ ok' = r.ok
          /\ index' = r.pos
          /\ trace' = parse_command(toks).trace
    /\ pc' = "parse_command"
    /\ UNCHANGED <<words, text, goal, start>>
    /\ UNCHANGED <<handleVars, timeVars, lockVars, schedVars, hybridVars>>

\* codeNew.py interactive_mode: res = bot.handle(cmd)
Handle ==
    /\ pc = "input"
    /\ \E h \in {handle(text, now, devices, log, events, queue)} :
          /\ tokens' = h.tokens
          /\ accepted' = h.ok
          /\ ok' = h.parsed.ok
          /\ index' = h.parsed.pos
          /\ trace' = h.trace
          /\ devices' = h.devices
          /\ log' = h.log
          /\ events' = h.events
          /\ queue' = h.queue
          /\ sem' = h.sem
          /\ response' = h.response
    /\ pc' = "handle"
    /\ UNCHANGED <<words, text, goal, start, now>>
    /\ UNCHANGED <<timeVars, lockVars, schedVars, hybridVars>>

Init == InitParse /\ InitHandle /\ Idle

Next ==
    \/ \E w \in Vocabulary[words] : TypeWord(w)
    \/ Parse
    \/ ParseCommand
    \/ Handle

Spec == Init /\ [][Next]_vars

(***************************************************************************)
(* parse_symbol called on any symbol of the table at any position of a     *)
(* short token sequence                                                    *)
(***************************************************************************)
MaxSymLen == 3
SymWords == {"the", "kitchen", "fan", "in", "lights", "all"}
SymInputs == UNION {[1..n -> SymWords] : n \in 0..MaxSymLen}

InitSym ==
    /\ words = "device"
    /\ text = <<>>
    /\ pc = "input"
    /\ tokens \in SymInputs
    /\ accepted = FALSE
    /\ goal = "COMMAND"
    /\ start = 0
    /\ ok = FALSE
    /\ index = 0
    /\ trace = NoTrace
    /\ now = 0
    /\ devices = DeviceController_init
    /\ log = <<>>
    /\ events = <<>>
    /\ queue = {}
    /\ sem = NoIntent
    /\ response = NoResponse
    /\ Idle

\* codeNew.py: ok, j = parse_symbol(sym, tokens, i, trace) with trace = []
ParseSymbolAt(sym, i) ==
    /\ pc = "input"
    /\ \E r \in {parse_symbol(sym, tokens, i)} :
          /\ ok' = r.ok
          /\ index' = r.pos
          /\ trace' = r.trace
    /\ goal' = sym
    /\ start' = i
    /\ pc' = "parse_symbol"
    /\ UNCHANGED <<words, text, tokens, accepted>>
    /\ UNCHANGED <<handleVars, timeVars, lockVars, schedVars, hybridVars>>

\* code.py: ok, j = parse_symbol(symbol, tokens, i, trace) with trace = []
CodeParseSymbolAt(sym, i) ==
    /\ pc = "input"
    /\ \E r \in {code_parse_symbol(sym, tokens, i)} :
          /\ ok' = r.ok
          /\ index' = r.pos
          /\ trace' = r.trace
    /\ goal' = sym
    /\ start' = i
    /\ pc' = "code_parse_symbol"
    /\ UNCHANGED <<words, text, tokens, accepted>>
    /\ UNCHANGED <<handleVars, timeVars, lockVars, schedVars, hybridVars>>

NextSym ==
    \/ \E sym \in DOMAIN GRAMMAR, i \in 0..Len(tokens) : ParseSymbolAt(sym, i)
    \/ \E sym \in DOMAIN grammar, i \in 0..Len(tokens) : CodeParseSymbolAt(sym, i)

SpecSym == InitSym /\ [][NextSym]_vars

(***************************************************************************)
(* parse_time_of_day and parse_duration called with any reference time     *)
(***************************************************************************)
MaxDay      == 1    \* reference times lie in days 0..MaxDay
MaxHourText == 13   \* the hour texts are "0" .. "13"
MaxCount    == 3    \* durations are 0 .. MaxCount hours or minutes

\* the first two minutes and the last minute of every hour
RefTimes ==
    {d * MinutesPerDay + h * MinutesPerHour + m :
        d \in 0..MaxDay, h \in 0..(HoursPerDay - 1), m \in {0, 1, MinutesPerHour - 1}}

IdleParse ==
    /\ words = "time"
    /\ text = <<>>
    /\ pc = "input"
    /\ tokens = <<>>
    /\ accepted = FALSE
    /\ goal = "COMMAND"
    /\ start = 0
    /\ ok = FALSE
    /\ index = 0
    /\ trace = NoTrace

IdleHandle ==
    /\ now = 0
    /\ devices = DeviceController_init
    /\ log = <<>>
    /\ events = <<>>
    /\ queue = {}
    /\ sem = NoIntent
    /\ response = NoResponse

InitTime ==
    /\ IdleParse
    /\ IdleHandle
    /\ refTime \in RefTimes
    /\ targ = NoTimeArg
    /\ tres = NoTime
    /\ IdleLock
    /\ IdleSched
    /\ IdleHybrid

\* parse_time_of_day("<digits> <ampm>", refTime)
ParseTimeOfDay(digits, ampm) ==
    /\ pc = "input"
    /\ targ' = [NoTimeArg EXCEPT !.digits = digits, !.ampm = ampm]
    /\ tres' = parse_time_of_day(digits, ampm, refTime)
    /\ pc' = "parse_time_of_day"
    /\ UNCHANGED <<words, text, tokens, accepted, goal, start, ok, index, trace>>
    /\ UNCHANGED <<handleVars, refTime, lockVars, schedVars, hybridVars>>

\* parse_duration(num, unit, refTime)
ParseDuration(num, unit) ==
    /\ pc = "input"
    /\ targ' = [NoTimeArg EXCEPT !.num = num, !.unit = unit]
    /\ tres' = [raised |-> "", dt |-> parse_duration(num, unit, refTime)]
    /\ pc' = "parse_duration"
    /\ UNCHANGED <<words, text, tokens, accepted, goal, start, ok, index, trace>>
    /\ UNCHANGED <<handleVars, refTime, lockVars, schedVars, hybridVars>>

NextTime ==
    \/ \E h \in 0..MaxHourText, ampm \in {"am", "pm"} : ParseTimeOfDay(ToString(h), ampm)
    \/ \E n \in 0..MaxCount, unit \in {"hours", "minutes"} : ParseDuration(n, unit)

SpecTime == InitTime /\ [][NextTime]_vars

(***************************************************************************)
(* codeNew.py DeviceController.set_device called from several threads,     *)
(* one statement at a time                                                 *)
(***************************************************************************)
NumThreads == 2    \* threads calling set_device
MaxCalls   == 3    \* calls made by all threads together

Threads == 1..NumThreads

CallNames  == {" kitchen  fan ", "bedroom heater", "garage door"}
CallStates == {"on", "off"}

\* name.strip().replace("  ", " ")
strip_replace(name) == IF name = " kitchen  fan " THEN "kitchen fan" ELSE name

\* a thread outside set_device; the value returned is told by the statement
\* reached before "return": "info" for True, "warning" for False
NoCall == [pc |-> "idle", name |-> "", state |-> "", old |-> ""]

InitLock ==
    /\ IdleParse
    /\ IdleHandle
    /\ IdleTime
    /\ IdleSched
    /\ IdleHybrid
    /\ lock = 0
    /\ threads = [t \in Threads |-> NoCall]
    /\ calls = <<>>
    /\ writes = <<>>

LockFrame ==
    UNCHANGED <<parseVars, now, events, queue, sem, response, timeVars, schedVars, hybridVars>>

\* def set_device(self, name, state): name = name.strip().replace("  ", " ")
Call(t, name, state) ==
    /\ threads[t].pc = "idle"
    /\ Len(calls) < MaxCalls
    /\ threads' = [threads EXCEPT ![t] =
                     [pc |-> "with", name |-> strip_replace(name), state |-> state,
                      old |-> ""]]
    /\ calls' = Append(calls, [name |-> strip_replace(name), state |-> state])
    /\ UNCHANGED <<lock, writes, devices, log>>
    /\ LockFrame

\* Acquire that takes the lock whether or not it is free
Acquire_NoWait(t) ==
    /\ threads[t].pc = "with"
    /\ lock' = t
    /\ threads' = [threads EXCEPT ![t].pc = "if"]
    /\ UNCHANGED <<calls, writes, devices, log>>
    /\ LockFrame

\* with self.lock: entered once the lock is free
Acquire(t) ==
    /\ threads[t].pc = "with"
    /\ lock = 0
    /\ lock' = t
    /\ threads' = [threads EXCEPT ![t].pc = "if"]
    /\ UNCHANGED <<calls, writes, devices, log>>
    /\ LockFrame

\* if name in self.devices:
Test(t) ==
    /\ threads[t].pc = "if"
    /\ threads' = [threads EXCEPT ![t].pc =
                     IF threads[t].name \in DOMAIN devices THEN "old" ELSE "warning"]
    /\ UNCHANGED <<lock, calls, writes, devices, log>>
    /\ LockFrame

\* old = self.devices[name]['state']
ReadOld(t) ==
    /\ threads[t].pc = "old"
    /\ threads' = [threads EXCEPT ![t].old = devices[threads[t].name], ![t].pc = "state"]
    /\ UNCHANGED <<lock, calls, writes, devices, log>>
    /\ LockFrame

\* self.devices[name]['state'] = state
WriteState(t) ==
    /\ threads[t].pc = "state"
    /\ devices' = [devices EXCEPT ![threads[t].name] = threads[t].state]
    /\ writes' = Append(writes, [name |-> threads[t].name,
                                 before |-> devices[threads[t].name],
                                 after |-> threads[t].state])
    /\ threads' = [threads EXCEPT ![t].pc = "info"]
    /\ UNCHANGED <<lock, calls, log>>
    /\ LockFrame

\* logger.info(f"{name}: {old} -> {state}")
LogInfo(t) ==
    /\ threads[t].pc = "info"
    /\ log' = Append(log, <<threads[t].name, threads[t].old, threads[t].state>>)
    /\ threads' = [threads EXCEPT ![t].pc = "return"]
    /\ UNCHANGED <<lock, calls, writes, devices>>
    /\ LockFrame

\* logger.warning(f"Unknown device '{name}'")
LogWarning(t) ==
    /\ threads[t].pc = "warning"
    /\ threads' = [threads EXCEPT ![t].pc = "return"]
    /\ UNCHANGED <<lock, calls, writes, devices, log>>
    /\ LockFrame

\* return True / return False: leaving the with block releases the lock
Return(t) ==
    /\ threads[t].pc = "return"
    /\ lock' = 0
    /\ threads' = [threads EXCEPT ![t].pc = "idle", ![t].name = "", ![t].state = "",
                                  ![t].old = ""]
    /\ UNCHANGED <<calls, writes, devices, log>>
    /\ LockFrame

NextLock ==
    \/ \E t \in Threads, name \in CallNames, state \in CallStates : Call(t, name, state)
    \/ \E t \in Threads : Acquire(t)
    \/ \E t \in Threads : Test(t)
    \/ \E t \in Threads : ReadOld(t)
    \/ \E t \in Threads : WriteState(t)
    \/ \E t \in Threads : LogInfo(t)
    \/ \E t \in Threads : LogWarning(t)
    \/ \E t \in Threads : Return(t)

SpecLock == InitLock /\ [][NextLock]_vars

(***************************************************************************)
(* The schedulers: codeNew.py AssistantScheduler and the hybrid            *)
(* ReminderScheduler, each with the thread its constructor starts.  The    *)
(* clock counts seconds.                                                   *)
(***************************************************************************)
MaxTime == 7    \* the clock runs from 0 to MaxTime
MaxAdds == 2    \* add calls made

\* ReminderScheduler.add: self.s.enter(5, 1, ...)
Delay == 5

\* sched keeps its queue ordered by time, then by the order of entry
First(q) ==
    CHOOSE e \in q : \A f \in q :
        e.time < f.time \/ (e.time = f.time /\ e.sequence <= f.sequence)

\* __init__: the scheduler is made and its thread started; nothing is queued
InitSched ==
    /\ IdleParse
    /\ IdleHandle
    /\ IdleTime
    /\ IdleLock
    /\ IdleHybrid
    /\ scheduler \in {"AssistantScheduler", "ReminderScheduler"}
    /\ worker = [pc |-> "run", entry |-> NoEntry]
    /\ added = 0
    /\ fired = <<>>

SchedFrame ==
    UNCHANGED <<parseVars, devices, log, events, sem, response, timeVars, lockVars, hybridVars>>

\* time.time() moves on
Tick ==
    /\ now < MaxTime
    /\ now' = now + 1
    /\ UNCHANGED <<queue, schedVars>>
    /\ SchedFrame

\* AssistantScheduler.add(t, func, meta): self.sched.enterabs(t.timestamp(), ...)
AssistantAdd(t) ==
    /\ scheduler = "AssistantScheduler"
    /\ added < MaxAdds
    /\ added' = added + 1
    /\ queue' = queue \cup {[time |-> t, task |-> "take medicine", sequence |-> added + 1]}
    /\ UNCHANGED <<now, scheduler, worker, fired>>
    /\ SchedFrame

\* ReminderScheduler.add(task): self.s.enter(5, 1, ...)
ReminderAdd ==
    /\ scheduler = "ReminderScheduler"
    /\ added < MaxAdds
    /\ now + Delay <= MaxTime
    /\ added' = added + 1
    /\ queue' = queue \cup {[time |-> now + Delay, task |-> "take medicine",
                             sequence |-> added + 1]}
    /\ UNCHANGED <<now, scheduler, worker, fired>>
    /\ SchedFrame

\* one pass of the loop of sched.scheduler.run, under the scheduler's lock:
\* leave on an empty queue; otherwise pop the first entry if it is due
run(q, clock, blocking) ==
    IF q = {}
    THEN [queue |-> q, worker |-> [pc |-> IF blocking THEN "exited" ELSE "sleep",
                                   entry |-> NoEntry]]
    ELSE IF First(q).time > clock
    THEN [queue |-> q, worker |-> [pc |-> IF blocking THEN "delayfunc" ELSE "sleep",
                                   entry |-> IF blocking THEN First(q) ELSE NoEntry]]
    ELSE [queue |-> q \ {First(q)}, worker |-> [pc |-> "action", entry |-> First(q)]]

\* AssistantScheduler.run: self.sched.run(blocking=False)
RunNonBlocking ==
    /\ scheduler = "AssistantScheduler"
    /\ worker.pc = "run"
    /\ \E r \in {run(queue, now, FALSE)} :
          /\ queue' = r.queue
          /\ worker' = r.worker
    /\ UNCHANGED <<now, scheduler, added, fired>>
    /\ SchedFrame

\* AssistantScheduler.run: time.sleep(0.5), then round the while True loop
Sleep ==
    /\ worker.pc = "sleep"
    /\ worker' = [worker EXCEPT !.pc = "run"]
    /\ UNCHANGED <<now, queue, scheduler, added, fired>>
    /\ SchedFrame

\* ReminderScheduler: Thread(target=self.s.run), that is run(blocking=True),
\* which returns, ending the thread, when it finds the queue empty
RunBlocking ==
    /\ scheduler = "ReminderScheduler"
    /\ worker.pc = "run"
    /\ \E r \in {run(queue, now, TRUE)} :
          /\ queue' = r.queue
          /\ worker' = r.worker
    /\ UNCHANGED <<now, scheduler, added, fired>>
    /\ SchedFrame

\* sched.scheduler.run: delayfunc(time - now) returns when the time has come
DelayFunc ==
    /\ worker.pc = "delayfunc"
    /\ now >= worker.entry.time
    /\ worker' = [pc |-> "run", entry |-> NoEntry]
    /\ UNCHANGED <<now, queue, scheduler, added, fired>>
    /\ SchedFrame

\* sched.scheduler.run: action(*argument, **kwargs); delayfunc(0)
Action ==
    /\ worker.pc = "action"
    /\ fired' = Append(fired, [time |-> worker.entry.time, task |-> worker.entry.task,
                               sequence |-> worker.entry.sequence, at |-> now])
    /\ worker' = [pc |-> "run", entry |-> NoEntry]
    /\ UNCHANGED <<now, queue, scheduler, added>>
    /\ SchedFrame

\* the steps of the scheduler's thread
WorkerNext == RunNonBlocking \/ Sleep \/ RunBlocking \/ DelayFunc \/ Action

NextSched ==
    \/ Tick
    \/ \E t \in now..MaxTime : AssistantAdd(t)
    \/ ReminderAdd
    \/ RunNonBlocking
    \/ Sleep
    \/ RunBlocking
    \/ DelayFunc
    \/ Action

\* the clock never stops, and a thread that can take a step is given the
\* processor in the end
SpecSched == InitSched /\ [][NextSched]_vars /\ WF_vars(Tick) /\ WF_vars(WorkerNext)

(***************************************************************************)
(* code.py: the commands it lists, typed at its prompt                     *)
(***************************************************************************)
commands ==
    << <<"turn", "on", "the", "living", "room", "lights">>,
       <<"turn", "off", "the", "kitchen", "fan">>,
       <<"turn", "on", "the", "bedroom", "heater">>,
       <<"switch", "off", "the", "bathroom", "lights">>,
       <<"switch", "on", "the", "living", "room", "fan">>,
       <<"turn", "off", "all", "lights">>,
       <<"turn", "on", "all", "fans">>,
       <<"switch", "on", "the", "heater", "in", "bedroom">>,
       <<"turn", "off", "the", "light", "in", "kitchen">>,
       <<"turn", "on", "the", "air", "conditioner", "in", "living", "room">>,
       <<"turn", "living", "on", "lights">>,
       <<"switch", "on", "the", "lights", "in", "garden">>,
       <<"turn", "off", "all", "heater">> >>

\* for c in commands[:10]: the ones printed as "Examples you can try"
Examples == 10

\* a command typed with a capital first letter, or with a full stop at its end
Capital(c) == [c EXCEPT ![1] = IF @ = "turn" THEN "Turn" ELSE "Switch"]
FullStop(c) == [c EXCEPT ![Len(c)] = @ \o "."]

Typed(c) == {c, Capital(c), FullStop(c), FullStop(Capital(c))}

InitCommands ==
    /\ words = "device"
    /\ text \in UNION {Typed(commands[k]) : k \in 1..Len(commands)}
    /\ pc = "input"
    /\ tokens = <<>>
    /\ accepted = FALSE
    /\ goal = "COMMAND"
    /\ start = 0
    /\ ok = FALSE
    /\ index = 0
    /\ trace = NoTrace
    /\ IdleHandle
    /\ Idle

NextCommands == Parse

SpecCommands == InitCommands /\ [][NextCommands]_vars

(***************************************************************************)
(* hybrid_smart_home.py and hybrid_smart_home_assistant.py: handle.  A     *)
(* text is the sequence of its words; Python's None is written "None".     *)
(***************************************************************************)
MaxWords   == 3    \* words of a command
MaxHandles == 2    \* handle calls made

HybridWords == {"kitchen", "fan", "on", "off", "Heater!", "lights"}
HybridCommands == UNION {[1..n -> HybridWords] : n \in 0..MaxWords}

\* the classes the classifier was trained on
Intents == {"device", "schedule"}

Programs == {"hybrid_smart_home", "hybrid_smart_home_assistant"}

\* DeviceController.__init__
HybridController_init ==
    (  "living room light" :> "off"
    @@ "kitchen fan"       :> "off"
    @@ "bedroom heater"    :> "off" )

\* re.sub(r"[^\w\s]", "", text.lower())
normalize(s) == [k \in 1..Len(s) |-> IF s[k] = "Heater!" THEN "heater" ELSE s[k]]

\* `sub in text`: among the words of the vocabulary a word holds sub only as its
\* beginning
In(sub, t) == \E k \in 1..Len(t) : StartsWith(t[k], sub)

\* (living room light|kitchen fan|bedroom heater) from token k on, as the end of a
\* pattern: its last word may begin a token
DevicePhraseEndingAt(t, k) ==
    \/ k + 2 <= Len(t) /\ t[k] = "living" /\ t[k + 1] = "room" /\ StartsWith(t[k + 2], "light")
    \/ k + 1 <= Len(t) /\ t[k] = "kitchen" /\ StartsWith(t[k + 1], "fan")
    \/ k + 1 <= Len(t) /\ t[k] = "bedroom" /\ StartsWith(t[k + 1], "heater")

\* the same as the start of a pattern: its first word may end a token; the number
\* of tokens it takes, 0 for no match
DevicePhraseStartingAt(t, k) ==
    IF k + 2 <= Len(t) /\ EndsWith(t[k], "living") /\ t[k + 1] = "room" /\ t[k + 2] = "light"
    THEN 3
    ELSE IF k + 1 <= Len(t) /\ EndsWith(t[k], "kitchen") /\ t[k + 1] = "fan" THEN 2
    ELSE IF k + 1 <= Len(t) /\ EndsWith(t[k], "bedroom") /\ t[k + 1] = "heater" THEN 2
    ELSE 0

SwitchAt(t, k) == k <= Len(t) /\ (StartsWith(t[k], "on") \/ StartsWith(t[k], "off"))

cfg_device_match(t) ==
    \/ \E k \in 1..Len(t) :
          /\ k + 1 <= Len(t)
          /\ EndsWith(t[k], "turn") \/ EndsWith(t[k], "switch")
          /\ t[k + 1] \in {"on", "off"}
          /\ DevicePhraseEndingAt(t, k + 2)
    \/ \E k \in 1..Len(t) :
          /\ DevicePhraseStartingAt(t, k) > 0
          /\ SwitchAt(t, k + DevicePhraseStartingAt(t, k))

extract_device(t) ==
    IF In("living", t) /\ In("light", t) THEN "living room light"
    ELSE IF In("kitchen", t) /\ In("fan", t) THEN "kitchen fan"
    ELSE IF In("heater", t) THEN "bedroom heater"
    ELSE IF In("light", t) THEN "living room light"
    ELSE "None"

extract_state(t) ==
    IF In("on", t) THEN "on" ELSE IF In("off", t) THEN "off" ELSE "None"

\* DeviceController.set_device of the hybrid files: the state is stored before
\* state.upper() is evaluated for the message
hybrid_set_device(devs, device, state) ==
    IF device \in DOMAIN devs
    THEN [devices |-> [devs EXCEPT ![device] = state],
          raised |-> IF state = "None" THEN "AttributeError" ELSE ""]
    ELSE [devices |-> devs, raised |-> ""]

\* log_event(command, intent, source, status)
log_event(evs, command, kind, source, status) ==
    Append(evs, [command |-> command, intent |-> kind, source |-> source, status |-> status])

\* set_device, then log_event unless set_device raised
hybrid_execute(same, command, source, d) ==
    IF d.raised # ""
    THEN [same EXCEPT !.devices = d.devices, !.raised = d.raised]
    ELSE [same EXCEPT !.devices = d.devices,
                      !.events = log_event(@, command, "device", source, "success")]

\* the device branch, taken after a grammar match (source "CFG") or on the
\* classifier's answer (source "ML"); only hybrid_smart_home_assistant.py tests
\* `if not device or not state`
hybrid_device(prog, same, command, source, device, state) ==
    IF prog = "hybrid_smart_home_assistant" /\ (device = "None" \/ state = "None")
    THEN [same EXCEPT !.events = log_event(@, command, "device", source, "failed")]
    ELSE hybrid_execute(same, command, source, hybrid_set_device(same.devices, device, state))

\* the schedule branch: self.scheduler.add(command)
hybrid_schedule(same, command, clock) ==
    [same EXCEPT
       !.queue = @ \cup {[time |-> clock + Delay, task |-> command, sequence |-> same.added + 1]},
       !.added = @ + 1,
       !.events = log_event(@, command, "schedule", "ML", "scheduled")]

hybrid_handle_text(prog, same, command, t, answer, clock) ==
    IF cfg_device_match(t)
    THEN hybrid_device(prog, same, command, "CFG", extract_device(t), extract_state(t))
    ELSE IF answer = "device"
    THEN hybrid_device(prog, same, command, "ML", extract_device(t), extract_state(t))
    ELSE IF answer = "schedule"
    THEN hybrid_schedule(same, command, clock)
    ELSE same

\* SmartHomeAssistant.handle(command), answer being what self.ml.predict returns
hybrid_handle(prog, command, answer, clock, devs, evs, q, n) ==
    hybrid_handle_text(prog,
                       [devices |-> devs, events |-> evs, queue |-> q, added |-> n,
                        raised |-> ""],
                       command, normalize(command), answer, clock)

InitHybrid ==
    /\ IdleParse
    /\ IdleTime
    /\ IdleLock
    /\ IdleSched
    /\ now = 0
    /\ devices = HybridController_init
    /\ log = <<>>
    /\ events = <<>>
    /\ queue = {}
    /\ sem = NoIntent
    /\ response = NoResponse
    /\ program \in Programs
    /\ intent = ""
    /\ handled = 0

\* the main loop: cmd = input(...); bot.handle(cmd).  An exception that leaves
\* handle ends the loop
HybridHandle(command, answer) ==
    /\ pc = "input"
    /\ handled < MaxHandles
    /\ \E h \in {hybrid_handle(program, command, answer, now, devices, events, queue, added)} :
          /\ devices' = h.devices
          /\ events' = h.events
          /\ queue' = h.queue
          /\ added' = h.added
          /\ response' = [NoResponse EXCEPT !.raised = h.raised]
          /\ pc' = IF h.raised # "" THEN "raised" ELSE "input"
    /\ text' = command
    /\ intent' = IF cfg_device_match(normalize(command)) THEN "" ELSE answer
    /\ handled' = handled + 1
    /\ UNCHANGED <<words, tokens, accepted, goal, start, ok, index, trace>>
    /\ UNCHANGED <<now, log, sem, timeVars, lockVars, scheduler, worker, fired, program>>

NextHybrid == \E command \in HybridCommands, answer \in Intents : HybridHandle(command, answer)

SpecHybrid == InitHybrid /\ [][NextHybrid]_vars

(***************************************************************************)
(* Reading a trace                                                         *)
(***************************************************************************)
\* the symbols of the terminal-match events of a sequence of events, in order
MatchedTerminals(tr) ==
    LET m == SelectSeq(tr, LAMBDA e : e.kind = "Matched") IN
    [k \in 1..Len(m) |-> m[k].sym]

\* the last Expand of (sym, prod) in a sequence of events, 0 for none
LastExpand(st, sym, prod) ==
    LET S == {j \in 1..Len(st) :
                st[j].kind = "Expand" /\ st[j].sym = sym /\ st[j].prod = prod}
    IN IF S = {} THEN 0 ELSE CHOOSE j \in S : \A x \in S : x <= j

\* the events of tr[1..k] that no later Backtrack (up to k) has abandoned: a
\* Backtrack removes everything from the Expand it closes onwards
RECURSIVE Kept(_, _)
Kept(tr, k) ==
    IF k = 0 THEN <<>>
    ELSE LET st == Kept(tr, k - 1)
             e  == tr[k]
         IN IF e.kind = "Backtrack"
            THEN SubSeq(st, 1, LastExpand(st, e.sym, e.prod) - 1)
            ELSE Append(st, e)

ParsedStates == {"parse", "parse_command", "handle"}

(***************************************************************************)
(* C1: parse and parse_command accept exactly when parse_symbol("COMMAND", *)
(* tokens, 0) succeeds and returns len(tokens); a successful parse of a    *)
(* proper prefix is a rejection; the returned position is within 0..len.   *)
(***************************************************************************)
C1_AcceptIffWholeInputParsed ==
    pc \in ParsedStates =>
        /\ accepted = (ok /\ index = Len(tokens))
        /\ (ok /\ index < Len(tokens) => ~accepted)
        /\ index \in 0..Len(tokens)

\* a prefix of the tokens parsed as a COMMAND and tokens are left over
C1_Witness ==
    pc = "parse_command" /\ ok /\ index < Len(tokens) /\ index > 0 /\ ~accepted

(***************************************************************************)
(* C2 as stated: for every accepted token sequence the terminal-match      *)
(* events of the trace, in trace order, are exactly the token sequence.    *)
(***************************************************************************)
C2_MatchEventsAreTheTokens ==
    pc \in ParsedStates /\ accepted => MatchedTerminals(trace) = tokens

(***************************************************************************)
(* C2 amended: for every accepted token sequence the terminal-match events *)
(* that do not lie between an Expand and the Backtrack that abandons that  *)
(* production are, in trace order, exactly the token sequence; the match   *)
(* events of abandoned productions stay in the trace.                      *)
(***************************************************************************)
C2_KeptMatchEventsAreTheTokens ==
    pc \in ParsedStates /\ accepted =>
        /\ MatchedTerminals(Kept(trace, Len(trace))) = tokens
        /\ Len(MatchedTerminals(trace)) >= Len(tokens)

\* an accepted input whose trace holds a match event of an abandoned production
C2_Witness ==
    /\ pc \in ParsedStates /\ accepted
    /\ Len(MatchedTerminals(trace)) > Len(tokens)

(***************************************************************************)
(* C3: first-match policy.  parse_symbol on a nonterminal at position i    *)
(* returns the end position of the first production, in table order, whose *)
(* whole sequence succeeds from i; exactly the productions up to that one  *)
(* have an Expand event in the trace, none after it, even one that would   *)
(* succeed too.  When no production succeeds it fails at i.                *)
(***************************************************************************)
\* the productions of the table entry prods with an Expand event for sym in tr
Expanded(tr, sym, prods) ==
    {k \in 1..Len(prods) :
        \E n \in 1..Len(tr) :
            tr[n].kind = "Expand" /\ tr[n].sym = sym /\ tr[n].prod = prods[k]}

FirstMatch(prods, succeeds, endpos) ==
    IF succeeds = {}
    THEN ~ok /\ index = start /\ Expanded(trace, goal, prods) = 1..Len(prods)
    ELSE /\ ok
         /\ index = endpos[Least(succeeds)]
         /\ Expanded(trace, goal, prods) = 1..Least(succeeds)

C3_FirstMatchingProductionWins ==
    /\ pc = "parse_symbol" =>
          FirstMatch(GRAMMAR[goal],
             {k \in 1..Len(GRAMMAR[goal]) :
                 parse_symbol_prod(GRAMMAR[goal][k], tokens, start, 1).ok},
             [k \in 1..Len(GRAMMAR[goal]) |->
                 parse_symbol_prod(GRAMMAR[goal][k], tokens, start, 1).pos])
    /\ pc = "code_parse_symbol" =>
          FirstMatch(grammar[goal],
             {k \in 1..Len(grammar[goal]) :
                 code_parse_symbol_prod(grammar[goal][k], tokens, start, 1).ok},
             [k \in 1..Len(grammar[goal]) |->
                 code_parse_symbol_prod(grammar[goal][k], tokens, start, 1).pos])

\* two productions of the symbol succeed from the position, with different ends
C3_Witness ==
    /\ pc = "parse_symbol"
    /\ \E k1, k2 \in 1..Len(GRAMMAR[goal]) :
          /\ k1 < k2
          /\ parse_symbol_prod(GRAMMAR[goal][k1], tokens, start, 1).ok
          /\ parse_symbol_prod(GRAMMAR[goal][k2], tokens, start, 1).ok
          /\ parse_symbol_prod(GRAMMAR[goal][k1], tokens, start, 1).pos
               # parse_symbol_prod(GRAMMAR[goal][k2], tokens, start, 1).pos
          /\ index = parse_symbol_prod(GRAMMAR[goal][k1], tokens, start, 1).pos

(***************************************************************************)
(* C4: in handle a device intent reaches set_device with the extracted     *)
(* name and state whether or not the parser accepted; the command is       *)
(* executed (event 'done') exactly when the name is a key of the registry, *)
(* otherwise it is an unknown device (event 'failed') and no device state  *)
(* changes; the returned ok is the parser's verdict.                       *)
(***************************************************************************)
DeviceEvent(status) ==
    [action_type |-> "device", target |-> sem.device, scheduled_time |-> 0,
     status |-> status]

C4_DeviceIntentRunsWhateverTheParserSaid ==
    pc = "handle" /\ sem.action_type = "device" =>
        /\ response.raised = ""
        /\ response.ok = (ok /\ index = Len(tokens))
        /\ IF sem.device \in DOMAIN DeviceController_init
           THEN /\ response.result = "Device command executed"
                /\ devices = [DeviceController_init EXCEPT ![sem.device] = sem.state]
                /\ log = << <<sem.device, DeviceController_init[sem.device], sem.state>> >>
                /\ events = <<DeviceEvent("done")>>
           ELSE /\ response.result = "Unknown device"
                /\ devices = DeviceController_init
                /\ log = <<>>
                /\ events = <<DeviceEvent("failed")>>

\* a device was switched on by a command the parser rejected
C4_Witness ==
    /\ pc = "handle" /\ sem.action_type = "device"
    /\ ~accepted /\ ~response.ok
    /\ response.result = "Device command executed"
    /\ devices[sem.device] = "on"

(***************************************************************************)
(* C5 as stated: a command whose tokens parse_command accepts gets a       *)
(* device or schedule intent from interpret, and handle answers executed,  *)
(* unknown device or scheduled, never "Command not recognized".            *)
(***************************************************************************)
C5_AcceptedCommandIsRecognized ==
    pc = "handle" /\ accepted =>
        /\ sem.action_type \in {"device", "schedule"}
        /\ response.result \in {"Device command executed", "Unknown device", "Reminder set"}

(***************************************************************************)
(* C7 as stated, for codeNew.py where no default room is configured: a     *)
(* device command with a room word and a device word names "{room}         *)
(* {device}" from words of the command; with a device word and no room     *)
(* word it ends in an unresolved-device error that is not the              *)
(* unknown-device outcome; without a device word there is no device        *)
(* intent.                                                                 *)
(***************************************************************************)
RoomWordsOf(t) == {t[p] : p \in {x \in 1..Len(t) : t[x] \in Rooms}}
DeviceWordsOf(t) == {NounAt(t, p) : p \in 1..Len(t)} \ {""}

C7_DeviceNamePrecedence ==
    pc = "handle" =>
        /\ DeviceWordsOf(tokens) = {} => sem.action_type # "device"
        /\ sem.action_type = "device" /\ RoomWordsOf(tokens) # {} =>
              \E r \in RoomWordsOf(tokens), n \in DeviceWordsOf(tokens) :
                  sem.device = r \o " " \o n
        /\ sem.action_type = "device" /\ RoomWordsOf(tokens) = {} =>
              response.result = "Unresolved device"

(***************************************************************************)
(* C8 as stated: handle returns a result for every command and never       *)
(* raises; a command whose time expression matches the schedule pattern    *)
(* with an hour outside 1..12 is rejected, and nothing is scheduled or     *)
(* persisted for it.                                                       *)
(***************************************************************************)
\* the hour token of the clock-time phrase that interpret resolves, "" when the
\* command is not a schedule command with a clock time
ClockPhraseHour(t, m) ==
    IF m.kind = "at" THEN t[m.at + 1] ELSE IF m.kind = "tomorrow" THEN t[m.at + 2] ELSE ""
ScheduledHour(t, kd, ks) ==
    IF kd # 0 \/ ks = 0 THEN "" ELSE ClockPhraseHour(t, SchedulePatternAt(t, ks))
HourToken(t) ==
    ScheduledHour(t, Leftmost({k \in 1..Len(t) : DevicePatternAt(t, k).ok}),
                     Leftmost({k \in 1..Len(t) : SchedulePatternAt(t, k).ok}))

C8_HandleNeverRaises ==
    pc = "handle" =>
        /\ response.raised = ""
        /\ response.result \in {"Device command executed", "Unknown device",
                                 "Reminder set", "Command not recognized"}
        /\ HourToken(tokens) # "" /\ int(HourToken(tokens)) \notin 1..12 =>
              /\ response.result = "Command not recognized"
              /\ queue = {}
              /\ events = <<>>

(***************************************************************************)
(* C6: for an hour H in 1..12 with am or pm and any reference time ref,    *)
(* parse_time_of_day returns the earliest instant strictly later than ref  *)
(* at the 24-hour value of H ("12 pm" = 12, "12 am" = 0), minute 0: on     *)
(* ref's date when ref is before that hour and on the next date            *)
(* otherwise, so more than 0 and at most 24 hours after ref.  N hours or N *)
(* minutes resolve to exactly ref + N hours or minutes.                    *)
(***************************************************************************)
\* minute of the day of the 24-hour value of hour h of the 12-hour clock
ClockMinute(h, ampm) == ((h % 12) + (IF ampm = "pm" THEN 12 ELSE 0)) * MinutesPerHour

NextInstantAt(minute, result) ==
    /\ result > refTime
    /\ result % MinutesPerDay = minute
    /\ \A t \in (refTime + 1)..(result - 1) : t % MinutesPerDay # minute
    /\ result - refTime \in 1..MinutesPerDay
    /\ result \div MinutesPerDay =
          (refTime \div MinutesPerDay) + (IF refTime % MinutesPerDay < minute THEN 0 ELSE 1)

C6_NextOccurrenceOfTheHour ==
    /\ pc = "parse_time_of_day" /\ int(targ.digits) \in 1..12 =>
          /\ tres.raised = ""
          /\ NextInstantAt(ClockMinute(int(targ.digits), targ.ampm), tres.dt)
    /\ pc = "parse_duration" =>
          /\ targ.unit = "hours" => tres.dt = refTime + targ.num * MinutesPerHour
          /\ targ.unit = "minutes" => tres.dt = refTime + targ.num

\* "12 am" asked at midnight sharp: the answer is the next midnight
C6_Witness ==
    /\ pc = "parse_time_of_day" /\ targ.digits = "12" /\ targ.ampm = "am"
    /\ refTime % MinutesPerDay = 0
    /\ tres.dt = refTime + MinutesPerDay

(***************************************************************************)
(* C9: under any interleaving of concurrent set_device calls on a known    *)
(* device, the steps read old, write new, log old -> new of one call run   *)
(* with no step of another call in between; the state left when all calls  *)
(* have returned is the value one of the calls asked for; every logged old *)
(* value is the state the device held immediately before that call's       *)
(* write; and the logged transitions of a device form a chain from the     *)
(* initial state to the final state.                                       *)
(***************************************************************************)
InsideLock == {"if", "old", "state", "info", "warning", "return"}

\* the entries of the log, or of the writes, that are about device d
LoggedFor(d) == SelectSeq(log, LAMBDA e : e[1] = d)
WrittenFor(d) == SelectSeq(writes, LAMBDA w : w.name = d)

Quiescent == \A t \in Threads : threads[t].pc = "idle"

OneCallAtATime ==
    \A t, u \in Threads :
        threads[t].pc \in InsideLock /\ threads[u].pc \in InsideLock => t = u

LoggedOldIsStateBeforeWrite ==
    /\ Len(log) <= Len(writes)
    /\ \A k \in 1..Len(log) :
          log[k] = <<writes[k].name, writes[k].before, writes[k].after>>

IsChain(l, first) ==
    \A k \in 1..Len(l) : l[k][2] = IF k = 1 THEN first ELSE l[k - 1][3]

LogIsChain ==
    \A d \in DOMAIN devices :
        /\ IsChain(LoggedFor(d), DeviceController_init[d])
        /\ Quiescent /\ LoggedFor(d) # <<>> =>
              LoggedFor(d)[Len(LoggedFor(d))][3] = devices[d]

FinalStateWasRequested ==
    \A d \in DOMAIN devices :
        Quiescent =>
            \/ devices[d] = DeviceController_init[d] /\ WrittenFor(d) = <<>>
            \/ \E k \in 1..Len(calls) : calls[k] = [name |-> d, state |-> devices[d]]

C9_SetDeviceIsAtomic ==
    /\ OneCallAtATime
    /\ LoggedOldIsStateBeforeWrite
    /\ LogIsChain
    /\ FinalStateWasRequested

\* one call has written and not yet logged while another call for the same
\* device, asking for the other state, waits for the lock
C9_Witness ==
    \E t, u \in Threads :
        /\ threads[t].pc = "info" /\ threads[u].pc = "with"
        /\ threads[t].name = "kitchen fan" /\ threads[u].name = "kitchen fan"
        /\ threads[t].state # threads[u].state
        /\ Len(log) = 1

(***************************************************************************)
(* C10: every reminder handed to add after the scheduler was constructed   *)
(* eventually has its callback invoked, and not before its scheduled time  *)
(* (the absolute time given in AssistantScheduler, 5 seconds after add in  *)
(* ReminderScheduler), the scheduler's thread being scheduled fairly.      *)
(***************************************************************************)
Fired(n) == \E k \in 1..Len(fired) : fired[k].sequence = n

NeverEarly == \A k \in 1..Len(fired) : fired[k].at >= fired[k].time

EveryReminderFires(class) ==
    \A n \in 1..MaxAdds : (scheduler = class /\ added >= n) ~> Fired(n)

AssistantSchedulerFires == EveryReminderFires("AssistantScheduler")
ReminderSchedulerFires == EveryReminderFires("ReminderScheduler")

C10_EveryReminderFiresInTime ==
    /\ AssistantSchedulerFires
    /\ ReminderSchedulerFires
    /\ []NeverEarly

(***************************************************************************)
(* C11: of the thirteen commands listed in code.py, parse(tokenize(c))     *)
(* accepts each of the first ten, the examples printed to the user, and    *)
(* rejects each of the last three.                                         *)
(***************************************************************************)
C11_ExamplesAcceptedOthersRejected ==
    pc = "parse" =>
        \A k \in 1..Len(commands) :
            tokens = commands[k] => accepted = (k <= Examples)

(***************************************************************************)
(* Reading a trace as brackets: Expand opens, Backtrack closes             *)
(***************************************************************************)
SamePair(e, f) == e.sym = f.sym /\ e.prod = f.prod

\* the Expand events of tr[1..k] still open when every Backtrack closes the
\* most recent open one, whatever its pair
RECURSIVE Open(_, _)
Open(tr, k) ==
    IF k = 0 THEN <<>>
    ELSE LET st == Open(tr, k - 1) IN
         IF tr[k].kind = "Expand" THEN Append(st, tr[k])
         ELSE IF tr[k].kind = "Backtrack" /\ st # <<>> THEN SubSeq(st, 1, Len(st) - 1)
         ELSE st

Top(st) == st[Len(st)]

\* a trace read against a grammar table g alone, without the tokens: what
\* evaluating sym emits from event n on.  wf: the events have that shape;
\* ok: the evaluation they record succeeded; next: the first event after it
RECURSIVE ReadSymbol(_, _, _, _)
RECURSIVE ReadProductions(_, _, _, _, _)
RECURSIVE ReadMembers(_, _, _, _, _)

Misread == [wf |-> FALSE, ok |-> FALSE, next |-> 0]

ReadMembers(g, prod, tr, n, j) ==
    IF j > Len(prod)
    THEN [wf |-> TRUE, ok |-> TRUE, next |-> n]
    ELSE LET r == ReadSymbol(g, prod[j], tr, n) IN
         IF ~r.wf \/ ~r.ok THEN r ELSE ReadMembers(g, prod, tr, r.next, j + 1)

ReadProductions(g, sym, tr, n, k) ==
    IF k > Len(g[sym])
    THEN [wf |-> TRUE, ok |-> FALSE, next |-> n]
    ELSE IF n > Len(tr) \/ tr[n] # Expand(sym, g[sym][k])
    THEN Misread
    ELSE LET m == ReadMembers(g, g[sym][k], tr, n + 1, 1) IN
         IF ~m.wf \/ m.ok THEN m
         ELSE IF m.next > Len(tr) \/ tr[m.next] # Backtrack(sym, g[sym][k])
         THEN Misread
         ELSE ReadProductions(g, sym, tr, m.next + 1, k + 1)

ReadSymbol(g, sym, tr, n) ==
    IF sym \in DOMAIN g
    THEN ReadProductions(g, sym, tr, n, 1)
    ELSE IF n > Len(tr) \/ tr[n].kind \notin {"Matched", "Expected"} \/ tr[n].sym # sym
    THEN Misread
    ELSE [wf |-> TRUE, ok |-> tr[n].kind = "Matched", next |-> n + 1]

Backtracks(tr) == {n \in 1..Len(tr) : tr[n].kind = "Backtrack"}
Expands(tr) == {n \in 1..Len(tr) : tr[n].kind = "Expand"}

\* the Expand events before event n of the pair that event n names
ExpandsBefore(tr, n) ==
    {m \in 1..(n - 1) : tr[m].kind = "Expand" /\ SamePair(tr[m], tr[n])}

Latest(S) == CHOOSE m \in S : \A x \in S : x <= m

\* the Expand that the Backtrack at n closes: the most recent one of its pair
Opener(tr, n) == Latest(ExpandsBefore(tr, n))

\* the Expand events that a Backtrack closes
Closed(tr) == UNION {{Latest(S) : S \in {ExpandsBefore(tr, n)} \ {{}}} : n \in Backtracks(tr)}

SymbolStates == {"parse_symbol", "code_parse_symbol"}
TableOf(state) == IF state = "parse_symbol" THEN GRAMMAR ELSE grammar

(***************************************************************************)
(* C12 as stated: each Backtrack(symbol, production) closes the most       *)
(* recent still-open Expand, and that Expand is for the same pair.         *)
(***************************************************************************)
C12_BacktrackClosesMostRecentOpenExpand ==
    pc \in SymbolStates =>
        \A n \in Backtracks(trace) :
            /\ Open(trace, n - 1) # <<>>
            /\ SamePair(Top(Open(trace, n - 1)), trace[n])

(***************************************************************************)
(* C12 amended: each Backtrack(symbol, production) closes the most recent  *)
(* Expand of the same pair, which is still open; every event between the   *)
(* two was emitted while evaluating the members of that production, in     *)
(* order up to the first that failed.  Expand events opened in between for *)
(* other pairs may still be open: they belong to productions that          *)
(* succeeded inside the abandoned one and get no Backtrack of their own.   *)
(* An Expand that no Backtrack closes is followed by the events of all     *)
(* members of its production, each succeeding.  The whole trace is what    *)
(* evaluating the symbol emits.                                            *)
(***************************************************************************)
\* the Backtrack at n closes the Expand at m
Closes(g, tr, n, m) ==
    /\ \A x \in (m + 1)..(n - 1) :
          tr[x].kind = "Backtrack" => ~SamePair(tr[x], tr[n])
    /\ ReadMembers(g, tr[n].prod, tr, m + 1, 1) = [wf |-> TRUE, ok |-> FALSE, next |-> n]

ClosesItsOwnExpand(g, tr, n) ==
    /\ ExpandsBefore(tr, n) # {}
    /\ Closes(g, tr, n, Opener(tr, n))

Succeeded(r) == r.wf /\ r.ok

OpenExpandsSucceeded(g, tr, closed) ==
    \A m \in Expands(tr) \ closed : Succeeded(ReadMembers(g, tr[m].prod, tr, m + 1, 1))

C12_BacktrackClosesItsOwnExpand ==
    pc \in SymbolStates =>
        /\ \A n \in Backtracks(trace) : ClosesItsOwnExpand(TableOf(pc), trace, n)
        /\ OpenExpandsSucceeded(TableOf(pc), trace, Closed(trace))
        /\ ReadSymbol(TableOf(pc), goal, trace, 1)
              = [wf |-> TRUE, ok |-> ok, next |-> Len(trace) + 1]

\* a Backtrack that finds the Expand of a production that succeeded, of another
\* pair, opened after its own and still open
C12_Witness ==
    /\ pc \in SymbolStates
    /\ \E n \in Backtracks(trace) :
          /\ Open(trace, n - 1) # <<>>
          /\ ~SamePair(Top(Open(trace, n - 1)), trace[n])

(***************************************************************************)
(* Derivability in the context-free grammar given by a table g             *)
(***************************************************************************)
RECURSIVE EndsOf(_, _, _, _)
RECURSIVE EndsOfSequence(_, _, _, _, _)

\* the positions j such that the members n.. of prod derive toks[i+1..j]
EndsOfSequence(g, prod, toks, i, n) ==
    IF n > Len(prod) THEN {i}
    ELSE UNION {EndsOfSequence(g, prod, toks, j, n + 1) : j \in EndsOf(g, prod[n], toks, i)}

\* the positions j such that sym derives toks[i+1..j]
EndsOf(g, sym, toks, i) ==
    IF sym \in DOMAIN g
    THEN UNION {EndsOfSequence(g, g[sym][k], toks, i, 1) : k \in 1..Len(g[sym])}
    ELSE IF i < Len(toks) /\ toks[i + 1] = sym THEN {i + 1} ELSE {}

Derivable(g, toks) == Len(toks) \in EndsOf(g, "COMMAND", toks, 0)

ParserAcceptsWhatGrammarDerives == pc = "parse" => accepted = Derivable(grammar, tokens)
ParseCommandAcceptsWhatGRAMMARDerives ==
    pc \in {"parse_command", "handle"} => accepted = Derivable(GRAMMAR, tokens)

(***************************************************************************)
(* C13: for each of the two grammars and every token sequence, the parser  *)
(* accepts the sequence if and only if it is derivable from COMMAND in the *)
(* context-free grammar given by the table.                                *)
(***************************************************************************)
C13_AcceptsIffDerivable ==
    /\ ParserAcceptsWhatGrammarDerives
    /\ ParseCommandAcceptsWhatGRAMMARDerives

(***************************************************************************)
(* C14: for a schedule command whose time phrase is "tomorrow at H am/pm", *)
(* issued at any time now, interpret resolves the scheduled time to hour H *)
(* (24-hour value, minute 0) on the calendar day immediately following     *)
(* now's date, whether now's time of day is before or after H.             *)
(***************************************************************************)
\* the command ends in "tomorrow at H am/pm" with H in 1..12
EndsInTomorrowAt(t) ==
    /\ Len(t) >= 4
    /\ t[Len(t) - 3] = "tomorrow" /\ t[Len(t) - 2] = "at"
    /\ IsNumber(t[Len(t) - 1]) /\ int(t[Len(t) - 1]) \in 1..12
    /\ t[Len(t)] \in {"am", "pm"}

NextDayAt(clock, minute) == ((clock \div MinutesPerDay) + 1) * MinutesPerDay + minute

C14_TomorrowIsTheNextCalendarDay ==
    pc = "handle" /\ EndsInTomorrowAt(tokens) =>
        /\ sem.action_type = "schedule"
        /\ sem.scheduled_time =
              NextDayAt(now, ClockMinute(int(tokens[Len(tokens) - 1]), tokens[Len(tokens)]))

(***************************************************************************)
(* C15: after any sequence of handle calls with arbitrary command texts    *)
(* and any answer of the intent classifier, the device registry has        *)
(* exactly the device names it was created with and every device's state   *)
(* is 'on' or 'off'; a single handle call changes the state of at most the *)
(* one device it names.                                                    *)
(***************************************************************************)
RegistryKeepsNamesAndStates ==
    program \in Programs =>
        /\ DOMAIN devices = DOMAIN HybridController_init
        /\ \A d \in DOMAIN devices : devices[d] \in {"on", "off"}

ChangesOnlyTheNamedDevice ==
    program \in Programs =>
        \A d \in DOMAIN devices :
            devices'[d] # devices[d] => d = extract_device(normalize(text'))

C15_RegistryInvariant ==
    /\ []RegistryKeepsNamesAndStates
    /\ [][ChangesOnlyTheNamedDevice]_vars

====
